---- MODULE Spec2Model ----
(***************************************************************************)
(* A model of the Xbox game store extension:                               *)
(*   - XboxLauncher (src/src/index.ts): the registry package enumerator,   *)
(*     its indirection resolvers and the memoized discovery cache;         *)
(*   - findXboxGamingRootPath (src/unnamed/part_000): the .GamingRoot      *)
(*     marker decoder.                                                     *)
(*                                                                         *)
(* Strings the code inspects (startsWith, indexOf, split, ...) are         *)
(* sequences of one-character strings.  A value that may be undefined is   *)
(* a record [def, val].  The registry is the environment: its content is   *)
(* chosen in Init; a failure to open the repository root is a transient    *)
(* condition chosen anew at every enumeration.                             *)
(***************************************************************************)
EXTENDS Integers, Sequences, FiniteSets, TLC

(***************************************************************************)
(* Bounds of the model.                                                    *)
(***************************************************************************)
\* Most package keys under the repository root beside the Xbox app's own.
MaxKeys == 3
\* Largest number of registry enumerations in one behaviour.
MaxEnum == 2
\* Longest path payload (in bytes, terminator included) of a marker file.
MaxPayloadBytes == 4
\* Most manifest files on the scanned volumes together.
MaxManifests == 3

(***************************************************************************)
(* Program constants (src/src/index.ts).                                   *)
(***************************************************************************)
STORE_ID == "xbox"

XBOXAPP_NAME == <<"m","i","c","r","o","s","o","f","t",".","x","b","o","x","a","p","p">>

IGNORABLE ==
  << <<"m","i","c","r","o","s","o","f","t",".","a","c","c","o","u","n","t","s">>,
     <<"m","i","c","r","o","s","o","f","t",".","a","a","d">>,
     <<"m","i","c","r","o","s","o","f","t",".","a","d","v","e","r","t","i","s","i","n","g">>,
     <<"m","i","c","r","o","s","o","f","t",".","b","i","n","g">>,
     <<"m","i","c","r","o","s","o","f","t",".","d","e","s","k","t","o","p">>,
     <<"m","i","c","r","o","s","o","f","t",".","d","i","r","e","c","t","x">>,
     <<"m","i","c","r","o","s","o","f","t",".","g","e","t","h","e","l","p">>,
     <<"m","i","c","r","o","s","o","f","t",".","g","e","t","s","t","a","r","t","e","d">>,
     <<"m","i","c","r","o","s","o","f","t",".","h","e","f","i">>,
     <<"m","i","c","r","o","s","o","f","t",".","l","o","c","k","a","p","p">>,
     <<"m","i","c","r","o","s","o","f","t",".","m","i","c","r","o","s","o","f","t">>,
     <<"m","i","c","r","o","s","o","f","t",".","n","e","t">>,
     <<"m","i","c","r","o","s","o","f","t",".","o","f","f","i","c","e">>,
     <<"m","i","c","r","o","s","o","f","t",".","o","n","e","c","o","n","n","e","c","t">>,
     <<"m","i","c","r","o","s","o","f","t",".","s","e","r","v","i","c","e","s">>,
     <<"m","i","c","r","o","s","o","f","t",".","u","i">>,
     <<"m","i","c","r","o","s","o","f","t",".","v","c","l","i","b","s">>,
     <<"m","i","c","r","o","s","o","f","t",".","w","i","n","d","o","w","s">>,
     <<"m","i","c","r","o","s","o","f","t",".","x","b","o","x">>,
     <<"m","i","c","r","o","s","o","f","t",".","z","u","n","e">>,
     <<"n","v","i","d","i","a","c","o","r","p">>,
     <<"r","e","a","l","t","e","k">>,
     <<"s","a","m","s","u","n","g">>,
     <<"s","y","n","a","p","t","i","c","s","i","n","c","o","r","p","o","r","a","t","e","d">>,
     <<"w","i","n","d","o","w","s">> >>

(***************************************************************************)
(* Strings used as registry content and as arguments.                      *)
(***************************************************************************)
KeyXboxApp == <<"M","i","c","r","o","s","o","f","t",".","X","b","o","x","A","p","p","_","1","_","x","6","4","_","8","w","e","k","y","b","3","d","8","b","b","w","e">>
KeyXbox == <<"m","i","c","r","o","s","o","f","t",".","x","b","o","x","_","1",".","0",".","0",".","0","_","x","6","4","_","8","w","e","k","y","b","3","d","8","b","b","w","e">>
KeyFoo1 == <<"F","o","o","_","1","_","x","6","4","_","B","a","r">>
KeyFoo2 == <<"F","o","o","_","2","_","x","6","4","_","B","a","r">>
KeyBaz == <<"B","a","z","_","1","_","x","6","4","_","Q","u","x">>
KeyQux == <<"Q","u","x","_","1","_","x","6","4","_","P","u","b">>
KeyFlat == <<"N","o","U","n","d","e","r","s","c","o","r","e">>
StrFoo == <<"F","o","o">>
StrBaz == <<"B","a","z">>
StrApp == <<"A","p","p">>
StrUndefined == <<"u","n","d","e","f","i","n","e","d">>
NameXbox == <<"X","b","o","x">>
NameFoo == <<"F","o","o"," ","G","a","m","e">>
NameFoo2 == <<"F","o","o"," ","T","w","o">>
NameFoo2Alt == <<"F","o","o"," ","Z","w","e","i">>
NameFoo2Third == <<"F","o","o"," ","D","r","e","i">>
NameQux == <<"Q","u","x"," ","G","a","m","e">>
NameFlat == <<"F","l","a","t">>
RefFoo2 == <<"@","{","F","o","o","_","2","?","m","s","-","r","e","s","o","u","r","c","e",":","/","/","F","o","o","/","N","a","m","e","}">>
ExecFoo1 == <<"F","o","o","_","1","_","x","6","4","_","B","a","r","!","G","a","m","e">>
ExecFlat == <<"F","l","a","t","A","p","p">>
PathXbox == <<"C",":","\\","X","b","o","x">>
PathFoo == <<"C",":","\\","F","o","o">>
PathFoo2 == <<"C",":","\\","F","o","o","2">>
PathBaz == <<"C",":","\\","B","a","z">>
PathFlat == <<"C",":","\\","F","l","a","t">>
PathFooMutable == <<"D",":","\\","G","a","m","e","s","\\","F","o","o">>
PathOther == <<"D",":","\\","O","t","h","e","r">>
StrMutableLink == <<"M","u","t","a","b","l","e","L","i","n","k">>
StrMutableLocation == <<"M","u","t","a","b","l","e","L","o","c","a","t","i","o","n">>
StrResKey == <<"a","1">>
StrHive1 == <<"e","n","-","U","S">>
StrHive2 == <<"d","e","-","D","E">>
StrHive3 == <<"f","r","-","F","R">>
JoinSep == <<","," ">>

(***************************************************************************)
(* Optional values: undefined, or a defined value.                         *)
(***************************************************************************)
Undefined == [def |-> FALSE, val |-> <<>>]

Def(v) == [def |-> TRUE, val |-> v]

\* JavaScript truthiness of an optional string: !!s.
Truthy(s) == s.def /\ s.val # <<>>

(***************************************************************************)
(* The JavaScript string and array built-ins the code uses.                *)
(***************************************************************************)
UpperChars ==
  <<"A","B","C","D","E","F","G","H","I","J","K","L","M",
    "N","O","P","Q","R","S","T","U","V","W","X","Y","Z">>

LowerChars ==
  <<"a","b","c","d","e","f","g","h","i","j","k","l","m",
    "n","o","p","q","r","s","t","u","v","w","x","y","z">>

\* The lower-case form of each upper-case letter.
LowerOf ==
  [c \in {UpperChars[i] : i \in DOMAIN UpperChars} |->
     LowerChars[CHOOSE i \in DOMAIN UpperChars : UpperChars[i] = c]]

ToLowerChar(c) == IF c \in DOMAIN LowerOf THEN LowerOf[c] ELSE c

\* String.prototype.toLowerCase
RECURSIVE ToLowerCase(_)
ToLowerCase(s) ==
  IF Len(s) = 0 THEN <<>> ELSE <<ToLowerChar(Head(s))>> \o ToLowerCase(Tail(s))

\* String.prototype.startsWith
StartsWith(s, p) == Len(p) <= Len(s) /\ \A i \in 1..Len(p) : s[i] = p[i]

\* String.prototype.indexOf for a one-character needle: 0-based, -1 if absent.
RECURSIVE IndexFrom(_, _, _)
IndexFrom(s, c, i) ==
  IF i > Len(s) THEN -1
  ELSE IF s[i] = c THEN i - 1
  ELSE IndexFrom(s, c, i + 1)

IndexOf(s, c) == IndexFrom(s, c, 1)

\* String.prototype.lastIndexOf for a one-character needle.
RECURSIVE LastIndexFrom(_, _, _)
LastIndexFrom(s, c, i) ==
  IF i < 1 THEN -1
  ELSE IF s[i] = c THEN i - 1
  ELSE LastIndexFrom(s, c, i - 1)

LastIndexOf(s, c) == LastIndexFrom(s, c, Len(s))

Clamp(n, lo, hi) == IF n < lo THEN lo ELSE IF n > hi THEN hi ELSE n

\* String.prototype.substring(a, b): negative indices count as 0, indices
\* beyond the end as the length, and the two are swapped when a > b.
Substring(s, a, b) ==
  LET ca == Clamp(a, 0, Len(s))
      cb == Clamp(b, 0, Len(s))
      from == IF ca <= cb THEN ca ELSE cb
      to == IF ca <= cb THEN cb ELSE ca
  IN  SubSeq(s, from + 1, to)

\* String.prototype.substr(start) for start >= 0.
Substr(s, start) == SubSeq(s, Clamp(start, 0, Len(s)) + 1, Len(s))

\* String.prototype.split for a one-character separator.
RECURSIVE Split(_, _)
Split(s, c) ==
  LET i == IndexOf(s, c)
  IN  IF i = -1 THEN <<s>>
      ELSE <<SubSeq(s, 1, i)>> \o Split(SubSeq(s, i + 2, Len(s)), c)

\* Array.prototype.join
RECURSIVE Join(_, _)
Join(strs, sep) ==
  IF Len(strs) = 0 THEN <<>>
  ELSE IF Len(strs) = 1 THEN strs[1]
  ELSE strs[1] \o sep \o Join(Tail(strs), sep)

\* Array.prototype.includes
Includes(arr, x) == \E i \in 1..Len(arr) : arr[i] = x

\* Array.prototype.find with the predicate given as the set of indices it
\* accepts: the first accepted element, or undefined.
FindFirst(arr, accepted) ==
  IF accepted = {} THEN Undefined
  ELSE Def(arr[CHOOSE i \in accepted : \A j \in accepted : i <= j])

(***************************************************************************)
(* The registry (the environment).                                         *)
(*                                                                         *)
(* A package is one child key of REPOSITORY_PATH with what the code reads  *)
(* for it: its DisplayName and PackageRootFolder values (undefined when    *)
(* the value is absent, so that RegGetValue throws), the child keys of     *)
(* REPOSITORY_PATH2\key (exec) and the MrtCache key of the package         *)
(* (resources: child keys, each with its hives).                           *)
(***************************************************************************)
NoKeys == [opens |-> FALSE, keys |-> <<>>]

PkgXboxApp ==
  [key |-> KeyXboxApp, displayName |-> Def(NameXbox),
   packageRootFolder |-> Def(PathXbox), exec |-> NoKeys, resources |-> NoKeys]

PkgXbox ==
  [key |-> KeyXbox, displayName |-> Def(NameXbox),
   packageRootFolder |-> Def(PathXbox), exec |-> NoKeys, resources |-> NoKeys]

PkgFoo1 ==
  [key |-> KeyFoo1, displayName |-> Def(NameFoo),
   packageRootFolder |-> Def(PathFoo),
   exec |-> [opens |-> TRUE, keys |-> <<ExecFoo1>>],
   resources |->
     [opens |-> TRUE,
      keys |-> << [name |-> StrResKey, opens |-> TRUE,
                   hives |-> << [name |-> StrHive1, opens |-> TRUE,
                                 values |-> << [key |-> NameFoo, value |-> NameFoo2Alt] >>] >>] >>]]

PkgFoo2 ==
  [key |-> KeyFoo2, displayName |-> Def(RefFoo2),
   packageRootFolder |-> Def(PathFoo2), exec |-> NoKeys,
   resources |->
     [opens |-> TRUE,
      keys |-> << [name |-> StrResKey, opens |-> TRUE,
                   hives |-> << [name |-> StrHive1, opens |-> TRUE,
                                 values |-> << [key |-> RefFoo2, value |-> NameFoo2] >>],
                                [name |-> StrHive2, opens |-> FALSE,
                                 values |-> << [key |-> RefFoo2, value |-> NameFoo2Alt] >>],
                                [name |-> StrHive3, opens |-> TRUE,
                                 values |-> << [key |-> RefFoo2, value |-> NameFoo2Third] >>] >>] >>]]

PkgBaz ==
  [key |-> KeyBaz, displayName |-> Undefined,
   packageRootFolder |-> Def(PathBaz), exec |-> NoKeys, resources |-> NoKeys]

PkgQux ==
  [key |-> KeyQux, displayName |-> Def(NameQux),
   packageRootFolder |-> Undefined, exec |-> NoKeys, resources |-> NoKeys]

PkgFlat ==
  [key |-> KeyFlat, displayName |-> Def(NameFlat),
   packageRootFolder |-> Def(PathFlat),
   exec |-> [opens |-> TRUE, keys |-> <<ExecFlat>>], resources |-> NoKeys]

\* The packages that may be installed beside the Xbox app, by a short name.
PackagePool == {"Xbox", "Foo1", "Foo2", "Baz", "Qux", "Flat"}

Package(n) ==
  CASE n = "XboxApp" -> PkgXboxApp
    [] n = "Xbox" -> PkgXbox
    [] n = "Foo1" -> PkgFoo1
    [] n = "Foo2" -> PkgFoo2
    [] n = "Baz" -> PkgBaz
    [] n = "Qux" -> PkgQux
    [] n = "Flat" -> PkgFlat

\* Lists of at most n packages of the pool.
RECURSIVE Repositories(_)
Repositories(n) ==
  IF n = 0 THEN {<<>>}
  ELSE LET shorter == Repositories(n - 1)
       IN  shorter \cup
           {Append(r, p) : r \in {s \in shorter : Len(s) = n - 1},
                           p \in PackagePool}

Distinct(r) == \A i, j \in 1..Len(r) : i # j => r[i] # r[j]

\* The child keys of the repository root in enumeration order: at most
\* MaxKeys packages of the pool (key names are unique under one key), after
\* the key of the Xbox app when that is installed.
AllRepositories ==
  {app \o r : app \in {<<>>, <<"XboxApp">>},
              r \in {q \in Repositories(MaxKeys) : Distinct(q)}}

\* RegEnumKeys on the repository root.
RegEnumKeys(r) == [i \in 1..Len(r) |-> Package(r[i])]

\* The state cache under MUTABLE_LOCATION_PATH: child keys, each with its
\* typed values.
RegValue(k, t, v) == [key |-> k, type |-> t, value |-> v]

StateCacheAbsent == [opens |-> FALSE, keys |-> <<>>]

StateCacheFoo ==
  [opens |-> TRUE,
   keys |-> << [opens |-> TRUE,
                values |-> << RegValue(StrMutableLink, "REG_SZ", PathFoo),
                              RegValue(StrMutableLocation, "REG_SZ", PathFooMutable) >>] >>]

StateCacheMixed ==
  [opens |-> TRUE,
   keys |-> << [opens |-> TRUE,
                values |-> << RegValue(StrMutableLink, "REG_SZ", PathFoo) >>],
               [opens |-> TRUE,
                values |-> << RegValue(StrMutableLink, "REG_SZ", PathFlat),
                              RegValue(StrMutableLocation, "REG_SZ", PathOther) >>],
               [opens |-> FALSE, values |-> <<>>],
               [opens |-> TRUE,
                values |-> << RegValue(StrMutableLink, "REG_SZ", PathFoo),
                              RegValue(StrMutableLocation, "REG_SZ", PathFooMutable) >>] >>]

StateCaches == {"absent", "foo", "mixed"}

StateCache(n) ==
  CASE n = "absent" -> StateCacheAbsent
    [] n = "foo" -> StateCacheFoo
    [] n = "mixed" -> StateCacheMixed

(***************************************************************************)
(* Errors and promises.                                                    *)
(***************************************************************************)
NoError == [type |-> "", what |-> <<>>, store |-> ""]

\* What winapi throws when a key cannot be opened or a value is absent.
OpenError == [type |-> "WinApiError", what |-> <<"o","p","e","n">>, store |-> ""]

ValueError == [type |-> "WinApiError", what |-> <<"v","a","l","u","e">>, store |-> ""]

\* types.GameEntryNotFound(what, store)
GameEntryNotFound(what, store) ==
  [type |-> "GameEntryNotFound", what |-> what, store |-> store]

\* A promise: its identity (0 for a promise made by Promise.resolve or
\* Promise.reject at the point of return, which is no stored object), its
\* settled state and its value or reason.
Resolved(id, value) ==
  [id |-> id, state |-> "resolved", value |-> value, err |-> NoError]

Rejected(id, err) ==
  [id |-> id, state |-> "rejected", value |-> <<>>, err |-> err]

\* mCache before the first enumeration.
NoPromise == [id |-> 0, state |-> "none", value |-> <<>>, err |-> NoError]

(***************************************************************************)
(* XboxLauncher: pure parts.                                               *)
(***************************************************************************)
\* constructor: the value of isXboxInstalled.
Constructor(plat, rootOpens, keys) ==
  IF plat = "win32"
    THEN IF rootOpens
           THEN \E i \in 1..Len(keys) :
                  StartsWith(ToLowerCase(keys[i].key), XBOXAPP_NAME)
           ELSE FALSE
    ELSE FALSE

\* getKeyNames without a filter list: the child key names, or none when the
\* key cannot be opened.
GetKeyNames(node) == IF node.opens THEN node.keys ELSE <<>>

\* getFirstKeyName
GetFirstKeyName(node) ==
  LET keyNames == GetKeyNames(node)
  IN  IF Len(keyNames) > 0 THEN Def(keyNames[1]) ELSE Undefined

\* The filter with the toLowerCase() call left out.
MutNotIgnorable_CaseSensitive(key) ==
  ~ \E i \in 1..Len(IGNORABLE) : StartsWith(key, IGNORABLE[i])

\* The filter of getGameEntries: the key matches no IGNORABLE pattern.
NotIgnorable(key) ==
  LET lower == ToLowerCase(key)
  IN  ~ \E i \in 1..Len(IGNORABLE) : StartsWith(lower, IGNORABLE[i])

\* The execution name taken as the last segment whatever the number of
\* segments: a child key name without '!' is used whole.
MutExecutionName_WholeNameWithoutBang(pkg) ==
  LET firstKeyName == GetFirstKeyName(pkg.exec)
  IN  IF Truthy(firstKeyName)
        THEN LET split == Split(firstKeyName.val, "!")
             IN  split[Len(split)]
        ELSE StrApp

\* getGameEntries, the execution name of a package.
ExecutionName(pkg) ==
  LET firstKeyName == GetFirstKeyName(pkg.exec)
  IN  IF Truthy(firstKeyName)
        THEN LET split == Split(firstKeyName.val, "!")
             IN  IF Len(split) > 1 THEN split[Len(split)] ELSE StrApp
        ELSE StrApp

\* getGameEntries, the publisher id of a package key.
PublisherId(key) == Substr(key, LastIndexOf(key, "_") + 1)

\* getGameEntries, the identity of a package key.
AppId(key) == Substring(key, 0, IndexOf(key, "_"))

\* resolveRef, the forEach over the hives: every hive that opens and holds
\* a value named displayName assigns name.
RECURSIVE ScanHives(_, _, _)
ScanHives(hives, displayName, name) ==
  IF Len(hives) = 0 THEN name
  ELSE LET hive == hives[1]
           hit == IF hive.opens
                    THEN {i \in 1..Len(hive.values) : hive.values[i].key = displayName}
                    ELSE {}
           next == IF hit = {} THEN name
                   ELSE Def(hive.values[CHOOSE i \in hit : TRUE].value)
       IN  ScanHives(Tail(hives), displayName, next)

\* resolveRef
ResolveRef(pkg, displayName) ==
  LET names == [opens |-> pkg.resources.opens,
                keys |-> [i \in 1..Len(pkg.resources.keys) |-> pkg.resources.keys[i].name]]
      firstKey == GetFirstKeyName(names)
  IN  IF ~ Truthy(firstKey) THEN Undefined
      ELSE LET child == pkg.resources.keys[1]
               hives == GetKeyNames([opens |-> child.opens, keys |-> child.hives])
           IN  IF Len(hives) = 0 THEN Undefined
               ELSE ScanHives(hives, displayName, Undefined)

\* resolveMutableLocation, the loop over the child keys: "throw" when a child
\* key cannot be opened, else the first matching MutableLocation.
RECURSIVE ScanStateCache(_, _)
ScanStateCache(keys, packagePath) ==
  IF Len(keys) = 0 THEN [threw |-> FALSE, location |-> Undefined]
  ELSE LET k == keys[1]
           values == SelectSeq(k.values, LAMBDA v : v.type = "REG_SZ")
           has(n) == \E i \in 1..Len(values) : values[i].key = n
           get(n) == k.values[CHOOSE i \in 1..Len(k.values) : k.values[i].key = n].value
       IN  IF ~ k.opens THEN [threw |-> TRUE, location |-> Undefined]
           ELSE IF has(StrMutableLink) /\ has(StrMutableLocation)
                   /\ get(StrMutableLink) = packagePath
             THEN [threw |-> FALSE, location |-> Def(get(StrMutableLocation))]
             ELSE ScanStateCache(Tail(keys), packagePath)

\* resolveMutableLocation
ResolveMutableLocation(cache, packagePath) ==
  IF ~ cache.opens THEN Undefined
  ELSE LET scan == ScanStateCache(cache.keys, packagePath)
       IN  IF scan.threw THEN Undefined ELSE scan.location

\* What the callback of keys.map in getGameEntries does for one package:
\* it returns an entry, returns undefined, or throws.
NoEntry ==
  [appid |-> <<>>, publisherId |-> <<>>, executionName |-> <<>>,
   gamePath |-> Undefined, name |-> Undefined, gameStoreId |-> ""]

\* The callback with the try/catch around the DisplayName read left out: a
\* missing DisplayName throws.
MutMapKey_NameReadUncaught(pkg, cache) ==
  IF ~ pkg.displayName.def \/ ~ pkg.packageRootFolder.def
    THEN [kind |-> "throw", entry |-> NoEntry, err |-> ValueError]
    ELSE [kind |-> "entry",
          entry |-> [appid |-> AppId(pkg.key),
                     publisherId |-> PublisherId(pkg.key),
                     executionName |-> ExecutionName(pkg),
                     gamePath |-> Def(pkg.packageRootFolder.val),
                     name |-> Def(pkg.displayName.val),
                     gameStoreId |-> STORE_ID],
          err |-> NoError]

\* The callback resolving every DisplayName through resolveRef, whether or
\* not it starts with '@'.
MutMapKey_AlwaysResolveRef(pkg, cache) ==
  IF ~ pkg.displayName.def
    THEN [kind |-> "undefined", entry |-> NoEntry, err |-> NoError]
  ELSE IF ~ pkg.packageRootFolder.def
    THEN [kind |-> "throw", entry |-> NoEntry, err |-> ValueError]
  ELSE LET gamePath == pkg.packageRootFolder.val
           mutableLocation == ResolveMutableLocation(cache, gamePath)
       IN  [kind |-> "entry",
            entry |-> [appid |-> AppId(pkg.key),
                       publisherId |-> PublisherId(pkg.key),
                       executionName |-> ExecutionName(pkg),
                       gamePath |-> IF mutableLocation # Undefined
                                      THEN mutableLocation ELSE Def(gamePath),
                       name |-> ResolveRef(pkg, pkg.displayName.val),
                       gameStoreId |-> STORE_ID],
            err |-> NoError]

MapKey(pkg, cache) ==
  IF ~ pkg.displayName.def
    THEN [kind |-> "undefined", entry |-> NoEntry, err |-> NoError]
  ELSE IF ~ pkg.packageRootFolder.def
    THEN [kind |-> "throw", entry |-> NoEntry, err |-> ValueError]
  ELSE LET displayName == pkg.displayName.val
           name == IF StartsWith(displayName, <<"@">>)
                     THEN ResolveRef(pkg, displayName)
                     ELSE Def(displayName)
           gamePath == pkg.packageRootFolder.val
           mutableLocation == ResolveMutableLocation(cache, gamePath)
       IN  [kind |-> "entry",
            entry |-> [appid |-> AppId(pkg.key),
                       publisherId |-> PublisherId(pkg.key),
                       executionName |-> ExecutionName(pkg),
                       gamePath |-> IF mutableLocation # Undefined
                                      THEN mutableLocation ELSE Def(gamePath),
                       name |-> name,
                       gameStoreId |-> STORE_ID],
            err |-> NoError]

\* getGameEntries: the settled promise with identity id.
GetGameEntries(id, installed, rootOpens, keys, cache) ==
  IF ~ installed THEN Resolved(id, <<>>)
  ELSE IF ~ rootOpens THEN Rejected(id, OpenError)
  ELSE LET unignored == SelectSeq(keys, LAMBDA p : NotIgnorable(p.key))
           gameEntries == [i \in 1..Len(unignored) |-> MapKey(unignored[i], cache)]
           thrown == {i \in 1..Len(unignored) : gameEntries[i].kind = "throw"}
           kept == SelectSeq(gameEntries, LAMBDA e : e.kind = "entry")
       IN  IF thrown # {}
             THEN Rejected(id, gameEntries[CHOOSE i \in thrown : \A j \in thrown : i <= j].err)
             ELSE Resolved(id, [i \in 1..Len(kept) |-> kept[i].entry])

(***************************************************************************)
(* The .GamingRoot marker decoder (src/unnamed/part_000).  Paths are       *)
(* sequences of UTF-16 code units, file contents sequences of bytes.       *)
(***************************************************************************)
\* a | b on non-negative integers.
RECURSIVE BitOr(_, _)
BitOr(a, b) ==
  IF a = 0 THEN b
  ELSE IF b = 0 THEN a
  ELSE (IF a % 2 = 1 \/ b % 2 = 1 THEN 1 ELSE 0) + 2 * BitOr(a \div 2, b \div 2)

\* The loop that combines the bytes from position i (0-based) two by two.
RECURSIVE DecodeUnits(_, _)
DecodeUnits(fileContent, i) ==
  IF i >= Len(fileContent) THEN <<>>
  ELSE LET highByte == fileContent[i + 1]
           lowByte == fileContent[i + 2]
           value == BitOr(highByte, lowByte * 256)
       IN  <<value>> \o DecodeUnits(fileContent, i + 2)

CHAR16_PATH_OFFSET == 4

\* slice(start) in place of slice(start, -1): the terminator is kept.
MutSliceDropLast_KeepLast(arr, start) == SubSeq(arr, start + 1, Len(arr))

\* Array.prototype.slice(start, -1)
SliceDropLast(arr, start) == SubSeq(arr, start + 1, Len(arr) - 1)

\* String.fromCharCode.apply(null, units)
FromCharCode(units) == [i \in 1..Len(units) |-> units[i] % 65536]

Null == [kind |-> "null", path |-> <<>>]

\* The body of the try block of findXboxGamingRootPath: it returns null or
\* a path, or throws.
TryDecode(driveRootPath, file) ==
  IF file.stat = "ENOENT" THEN [kind |-> "throw", path |-> <<>>]
  ELSE IF file.stat # "file" THEN Null
  ELSE IF ~ file.readable THEN [kind |-> "throw", path |-> <<>>]
  ELSE IF Len(file.content) % 2 # 0 THEN [kind |-> "throw", path |-> <<>>]
  ELSE LET content == DecodeUnits(file.content, 0)
       IN  IF Len(content) < CHAR16_PATH_OFFSET + 1
             THEN [kind |-> "throw", path |-> <<>>]
             ELSE LET relativePath ==
                        FromCharCode(SliceDropLast(content, CHAR16_PATH_OFFSET))
                  IN  [kind |-> "path", path |-> driveRootPath \o relativePath]

\* findXboxGamingRootPath: what its caller receives.
FindXboxGamingRootPath(driveRootPath, file) ==
  LET tried == TryDecode(driveRootPath, file)
  IN  IF tried.kind = "throw" THEN Null ELSE tried

\* Volume roots "D:\" and "E:\".
DriveRoots == {<<68, 58, 92>>, <<69, 58, 92>>}

\* 'R' 'G' 'B' 'X' 01 00 00 00, and a header that is not the signature.
HeaderRGBX == <<82, 71, 66, 88, 1, 0, 0, 0>>

HeaderOther == <<0, 1, 2, 3, 4, 5, 6, 255>>

PayloadBytes == {0, 1, 65}

RECURSIVE ByteStrings(_)
ByteStrings(n) ==
  IF n = 0 THEN {<<>>}
  ELSE LET shorter == ByteStrings(n - 1)
       IN  shorter \cup
           {Append(s, b) : s \in {t \in shorter : Len(t) = n - 1}, b \in PayloadBytes}

\* Marker file contents: a header followed by a payload, and truncated headers.
MarkerContents ==
  {h \o b : h \in {HeaderRGBX, HeaderOther}, b \in ByteStrings(MaxPayloadBytes)}
    \cup {SubSeq(HeaderRGBX, 1, n) : n \in 0..7}

MarkerFiles ==
  {[stat |-> "ENOENT", readable |-> FALSE, content |-> <<>>],
   [stat |-> "directory", readable |-> FALSE, content |-> <<>>]}
    \cup {[stat |-> "file", readable |-> r, content |-> c] :
            r \in BOOLEAN, c \in MarkerContents}

NoFile == [stat |-> "ENOENT", readable |-> FALSE, content |-> <<>>]

(***************************************************************************)
(* State.                                                                  *)
(***************************************************************************)
VARIABLES
  platform,         \* process.platform
  ctorRootOpens,    \* whether the repository root opened in the constructor
  repo,             \* the packages under the repository root, in order
  stateCache,       \* which registry content is under MUTABLE_LOCATION_PATH
  isXboxInstalled,  \* XboxLauncher.isXboxInstalled
  mCache,           \* XboxLauncher.mCache
  nEnum,            \* enumerations of the registry issued by getGameEntries
  lastCall,         \* the latest call of a public method and what it returned
  drive,            \* a volume: its root path and its .GamingRoot file
  markerPc,         \* "idle", or "done" once findXboxGamingRootPath returned
  markerRet,        \* what findXboxGamingRootPath returned
  volumes,          \* the drives with their marker files, and the manifests
  scan,             \* findInstalledGames: position, roots and manifests left
  gamePathMap       \* findInstalledGames: gamePathMap

vars ==
  <<platform, ctorRootOpens, repo, stateCache, isXboxInstalled, mCache, nEnum,
    lastCall, drive, markerPc, markerRet, volumes, scan, gamePathMap>>

envVars == <<platform, ctorRootOpens, repo, stateCache, isXboxInstalled>>

markerVars == <<drive, markerPc, markerRet>>

providerVars == <<mCache, nEnum, lastCall>>

scanVars == <<volumes, scan, gamePathMap>>

\* No volume, and findInstalledGames not called.
NoVolumes == [files |-> <<>>, manifests |-> <<>>]

ScanAt(pc, roots, manifests) == [pc |-> pc, roots |-> roots, manifests |-> manifests]

EmptyMap == [n \in {} |-> <<>>]

ScanIdle ==
  /\ volumes = NoVolumes
  /\ scan = ScanAt("idle", <<>>, <<>>)
  /\ gamePathMap = EmptyMap

NoArg == [isArray |-> FALSE, ids |-> <<>>]

Call(op, arg, ret, flag) == [op |-> op, arg |-> arg, ret |-> ret, flag |-> flag]

\* Arguments of findByAppId: "Foo", "Baz" and ["Baz", "Foo"].
AppIdArgs ==
  {[isArray |-> FALSE, ids |-> <<StrFoo>>],
   [isArray |-> FALSE, ids |-> <<StrBaz>>],
   [isArray |-> TRUE, ids |-> <<StrBaz, StrFoo>>]}

\* Arguments of findByName (none holds a character special in a RegExp).
NameArgs == {NameFoo, StrUndefined}

(***************************************************************************)
(* XboxLauncher: the public methods.                                       *)
(***************************************************************************)
\* allGames without the test of mCache: every call enumerates.
MutAllGamesCall_NoCache(rootOpens) ==
  IF ~ isXboxInstalled
    THEN [ret |-> Resolved(0, <<>>), cache |-> mCache, n |-> nEnum]
    ELSE LET p == GetGameEntries(nEnum + 1, isXboxInstalled, rootOpens,
                                 RegEnumKeys(repo), StateCache(stateCache))
         IN  [ret |-> p, cache |-> p, n |-> nEnum + 1]

\* allGames without the test of isXboxInstalled.
MutAllGamesCall_NoInstalledCheck(rootOpens) ==
  IF mCache = NoPromise
    THEN LET p == GetGameEntries(nEnum + 1, isXboxInstalled, rootOpens,
                                 RegEnumKeys(repo), StateCache(stateCache))
         IN  [ret |-> p, cache |-> p, n |-> nEnum + 1]
    ELSE [ret |-> mCache, cache |-> mCache, n |-> nEnum]

\* allGames enumerating again when the cached promise is a rejected one.
MutAllGamesCall_RetryAfterFailure(rootOpens) ==
  IF ~ isXboxInstalled
    THEN [ret |-> Resolved(0, <<>>), cache |-> mCache, n |-> nEnum]
  ELSE IF mCache = NoPromise \/ mCache.state = "rejected"
    THEN LET p == GetGameEntries(nEnum + 1, isXboxInstalled, rootOpens,
                             RegEnumKeys(repo), StateCache(stateCache))
         IN  [ret |-> p, cache |-> p, n |-> nEnum + 1]
  ELSE [ret |-> mCache, cache |-> mCache, n |-> nEnum]

\* allGames: the promise returned, the new mCache and the new count of
\* enumerations.
AllGamesCall(rootOpens) ==
  IF ~ isXboxInstalled
    THEN [ret |-> Resolved(0, <<>>), cache |-> mCache, n |-> nEnum]
  ELSE IF mCache = NoPromise
    THEN LET p == GetGameEntries(nEnum + 1, isXboxInstalled, rootOpens,
                             RegEnumKeys(repo), StateCache(stateCache))
         IN  [ret |-> p, cache |-> p, n |-> nEnum + 1]
  ELSE [ret |-> mCache, cache |-> mCache, n |-> nEnum]

\* reloadGames: the new mCache and the new count of enumerations.
ReloadGamesCall(rootOpens) ==
  IF ~ isXboxInstalled
    THEN [cache |-> mCache, n |-> nEnum]
    ELSE [cache |-> GetGameEntries(nEnum + 1, isXboxInstalled, rootOpens,
                             RegEnumKeys(repo), StateCache(stateCache)),
          n |-> nEnum + 1]

\* findByAppId taking the last matching entry in place of the first.
MutFindByAppIdThen_LastMatch(appId, all) ==
  IF all.state = "rejected" THEN Rejected(0, all.err)
  ELSE LET entries == all.value
           matches == {i \in 1..Len(entries) : Includes(appId.ids, entries[i].appid)}
       IN  IF matches = {}
             THEN Rejected(0, GameEntryNotFound(Join(appId.ids, JoinSep), STORE_ID))
             ELSE Resolved(0, <<entries[CHOOSE i \in matches : \A j \in matches : j <= i]>>)

\* findByAppId, the continuation on the promise of allGames.
FindByAppIdThen(appId, all) ==
  IF all.state = "rejected" THEN Rejected(0, all.err)
  ELSE LET entries == all.value
           matches == IF appId.isArray
                        THEN {i \in 1..Len(entries) : Includes(appId.ids, entries[i].appid)}
                        ELSE {i \in 1..Len(entries) : appId.ids[1] = entries[i].appid}
           gameEntry == FindFirst(entries, matches)
       IN  IF gameEntry = Undefined
             THEN Rejected(0, GameEntryNotFound(
                                IF appId.isArray THEN Join(appId.ids, JoinSep)
                                                 ELSE appId.ids[1],
                                STORE_ID))
             ELSE Resolved(0, <<gameEntry.val>>)

\* RegExp('^' + appName + '$').test(name), for an appName without special
\* characters; an undefined name is tested as the string "undefined".
NameTest(appName, name) ==
  (IF name.def THEN name.val ELSE StrUndefined) = appName

\* findByName, the continuation on the promise of allGames.
FindByNameThen(appName, all) ==
  IF all.state = "rejected" THEN Rejected(0, all.err)
  ELSE LET entries == all.value
           matches == {i \in 1..Len(entries) : NameTest(appName, entries[i].name)}
           gameEntry == FindFirst(entries, matches)
       IN  IF gameEntry = Undefined
             THEN Rejected(0, GameEntryNotFound(appName, STORE_ID))
             ELSE Resolved(0, <<gameEntry.val>>)

\* Whether the repository root opens, where a call enumerates the registry.
RootOutcomes(enumerates) == IF enumerates THEN BOOLEAN ELSE {TRUE}

AllGames ==
  \E rootOpens \in RootOutcomes(isXboxInstalled /\ mCache = NoPromise) :
    \E c \in {AllGamesCall(rootOpens)} :
        /\ c.n <= MaxEnum
        /\ mCache' = c.cache
        /\ nEnum' = c.n
        /\ lastCall' = Call("allGames", NoArg, c.ret, FALSE)
        /\ UNCHANGED <<envVars, markerVars, scanVars>>

ReloadGames ==
  \E rootOpens \in RootOutcomes(isXboxInstalled) :
    \E c \in {ReloadGamesCall(rootOpens)} :
        /\ c.n <= MaxEnum
        /\ mCache' = c.cache
        /\ nEnum' = c.n
        /\ lastCall' = Call("reloadGames", NoArg, Resolved(0, <<>>), FALSE)
        /\ UNCHANGED <<envVars, markerVars, scanVars>>

FindByAppId ==
  \E appId \in AppIdArgs, rootOpens \in RootOutcomes(isXboxInstalled /\ mCache = NoPromise) :
    \E c \in {AllGamesCall(rootOpens)} :
        /\ c.n <= MaxEnum
        /\ mCache' = c.cache
        /\ nEnum' = c.n
        /\ lastCall' = Call("findByAppId", appId, FindByAppIdThen(appId, c.ret), FALSE)
        /\ UNCHANGED <<envVars, markerVars, scanVars>>

FindByName ==
  \E appName \in NameArgs, rootOpens \in RootOutcomes(isXboxInstalled /\ mCache = NoPromise) :
    \E c \in {AllGamesCall(rootOpens)} :
        /\ c.n <= MaxEnum
        /\ mCache' = c.cache
        /\ nEnum' = c.n
        /\ lastCall' = Call("findByName", [isArray |-> FALSE, ids |-> <<appName>>],
                            FindByNameThen(appName, c.ret), FALSE)
        /\ UNCHANGED <<envVars, markerVars, scanVars>>

IsGameStoreInstalled ==
  /\ lastCall' = Call("isGameStoreInstalled", NoArg, Resolved(0, <<>>), isXboxInstalled)
  /\ UNCHANGED <<envVars, markerVars, scanVars, mCache, nEnum>>

\* The provider right after new XboxLauncher(), for any platform and registry.
Init ==
  /\ platform \in {"win32", "linux"}
  /\ ctorRootOpens \in BOOLEAN
  /\ repo \in AllRepositories
  /\ stateCache \in StateCaches
  /\ platform = "linux" => ~ ctorRootOpens /\ repo = <<>> /\ stateCache = "absent"
  /\ isXboxInstalled = Constructor(platform, ctorRootOpens, RegEnumKeys(repo))
  /\ mCache = NoPromise
  /\ nEnum = 0
  /\ lastCall = Call("new", NoArg, Resolved(0, <<>>), FALSE)
  /\ drive = [root |-> <<>>, file |-> NoFile]
  /\ markerPc = "idle"
  /\ markerRet = Null
  /\ ScanIdle

Next ==
  \/ AllGames
  \/ ReloadGames
  \/ FindByAppId
  \/ FindByName
  \/ IsGameStoreInstalled

Spec == Init /\ [][Next]_vars

(***************************************************************************)
(* The marker decoder applied to one volume.                               *)
(***************************************************************************)
FindXboxGamingRootPathStep ==
  /\ markerPc = "idle"
  /\ markerRet' = FindXboxGamingRootPath(drive.root, drive.file)
  /\ markerPc' = "done"
  /\ UNCHANGED <<envVars, providerVars, scanVars, drive>>

InitMarker ==
  /\ platform = "win32"
  /\ ctorRootOpens = TRUE
  /\ repo = <<>>
  /\ stateCache = "absent"
  /\ isXboxInstalled = Constructor(platform, ctorRootOpens, RegEnumKeys(repo))
  /\ mCache = NoPromise
  /\ nEnum = 0
  /\ lastCall = Call("new", NoArg, Resolved(0, <<>>), FALSE)
  /\ drive \in [root : DriveRoots, file : MarkerFiles]
  /\ markerPc = "idle"
  /\ markerRet = Null
  /\ ScanIdle

NextMarker == FindXboxGamingRootPathStep

SpecMarker == InitMarker /\ [][NextMarker]_vars

(***************************************************************************)
(* findInstalledGames (src/unnamed/part_000): the scan of the volumes for  *)
(* manifests.  A manifest file is named by its directory and base name.    *)
(***************************************************************************)
\* The drives to search: "D:\" and "E:\".
ScanDrives == << <<68, 58, 92>>, <<69, 58, 92>> >>

\* A marker file that decodes to the path "A".
ScanMarkerFile ==
  [stat |-> "file", readable |-> TRUE, content |-> HeaderRGBX \o <<65, 0, 0, 0>>]

\* What a manifest file holds: it cannot be read or parsed, it parses to a
\* document without Package.Identity[0].$.Name, or to one with the name "",
\* "A" or "B".
ManifestKinds == {"unreadable", "noIdentity", "emptyName", "A", "B"}

\* The manifest files of all drives in the order the walk reports them, at
\* most n, each on one drive.
RECURSIVE ManifestLists(_)
ManifestLists(n) ==
  IF n = 0 THEN {<<>>}
  ELSE LET shorter == ManifestLists(n - 1)
       IN  shorter \cup
           {Append(l, m) : l \in {q \in shorter : Len(q) = n - 1},
                           m \in [drive : 1..Len(ScanDrives), kind : ManifestKinds]}

\* The file systems scanned: manifests lie under install roots only.
AllVolumes ==
  {v \in [files : [1..Len(ScanDrives) -> {NoFile, ScanMarkerFile}],
          manifests : ManifestLists(MaxManifests)] :
     \A i \in 1..Len(v.manifests) : v.files[v.manifests[i].drive] # NoFile}

\* findXboxGamingRootPaths: the decoded install roots of the drives from
\* drive i on, in order, the drives without one left out.
RECURSIVE FindXboxGamingRootPaths(_, _, _)
FindXboxGamingRootPaths(drives, files, i) ==
  IF i > Len(drives) THEN <<>>
  ELSE LET gamingRootPath == FindXboxGamingRootPath(drives[i], files[i])
       IN  (IF gamingRootPath # Null THEN <<gamingRootPath.path>> ELSE <<>>)
             \o FindXboxGamingRootPaths(drives, files, i + 1)

\* The directory of the i-th manifest: <install root>\<digit i>.
ManifestDir(vol, i) ==
  FindXboxGamingRootPath(ScanDrives[vol.manifests[i].drive],
                         vol.files[vol.manifests[i].drive]).path \o <<92, 48 + i>>

\* findManifests: the manifest files under rootPath, in walk order.
FindManifests(rootPath, vol) ==
  LET under == SelectSeq([i \in 1..Len(vol.manifests) |-> i],
                         LAMBDA i : SubSeq(ManifestDir(vol, i), 1, Len(rootPath)) = rootPath)
  IN  [k \in 1..Len(under) |-> [dir |-> ManifestDir(vol, under[k]), base |-> "APP_MANIFEST"]]

\* path.dirname of a manifest file.
Dirname(manifest) == manifest.dir

\* getAppManifestData: the parsed document of the manifest in filePath, or
\* undefined when reading or parsing fails.
GetAppManifestData(filePath, vol) ==
  LET appManifestFilePath == [dir |-> filePath, base |-> "APP_MANIFEST"]
      i == CHOOSE j \in 1..Len(vol.manifests) : ManifestDir(vol, j) = appManifestFilePath.dir
      kind == vol.manifests[i].kind
  IN  CASE kind = "unreadable" -> [parsed |-> FALSE, name |-> Undefined]
        [] kind = "noIdentity" -> [parsed |-> TRUE, name |-> Undefined]
        [] kind = "emptyName" -> [parsed |-> TRUE, name |-> Def(<<>>)]
        [] kind = "A" -> [parsed |-> TRUE, name |-> Def(<<"A">>)]
        [] kind = "B" -> [parsed |-> TRUE, name |-> Def(<<"B">>)]

\* data?.Package?.Identity?.[0]?.$?.Name
IdentityName(data) == IF data.parsed THEN data.name ELSE Undefined

\* gamePathMap[appId] = gamePath
MapSet(map, appId, gamePath) ==
  [n \in DOMAIN map \cup {appId} |-> IF n = appId THEN gamePath ELSE map[n]]

\* The body of the inner loop recording a path only for an identity the
\* map does not hold yet.
MutRecordManifest_KeepFirst(map, manifest, vol) ==
  LET gamePath == Dirname(manifest)
      appId == IdentityName(GetAppManifestData(gamePath, vol))
  IN  IF Truthy(appId) /\ appId.val \notin DOMAIN map
        THEN MapSet(map, appId.val, gamePath) ELSE map

\* findInstalledGames, the body of the inner loop: the map after manifest.
RecordManifest(map, manifest, vol) ==
  LET gamePath == Dirname(manifest)
      data == GetAppManifestData(gamePath, vol)
      appId == IdentityName(data)
  IN  IF Truthy(appId) THEN MapSet(map, appId.val, gamePath) ELSE map

\* const gamingRootPaths = await findXboxGamingRootPaths(api)
FindRootsStep ==
  /\ scan.pc = "start"
  /\ scan' = ScanAt("roots", FindXboxGamingRootPaths(ScanDrives, volumes.files, 1), <<>>)
  /\ UNCHANGED <<envVars, providerVars, markerVars, volumes, gamePathMap>>

\* The outer loop takes the next root: await findManifests(gamingRootPath, true)
FindManifestsStep ==
  /\ scan.pc = "roots"
  /\ scan.roots # <<>>
  /\ scan' = ScanAt("manifests", scan.roots, FindManifests(Head(scan.roots), volumes))
  /\ UNCHANGED <<envVars, providerVars, markerVars, volumes, gamePathMap>>

\* One pass of the inner loop.
ScanManifestStep ==
  /\ scan.pc = "manifests"
  /\ scan.manifests # <<>>
  /\ gamePathMap' = RecordManifest(gamePathMap, Head(scan.manifests), volumes)
  /\ scan' = ScanAt("manifests", scan.roots, Tail(scan.manifests))
  /\ UNCHANGED <<envVars, providerVars, markerVars, volumes>>

\* The inner loop ends.
EndOfRootStep ==
  /\ scan.pc = "manifests"
  /\ scan.manifests = <<>>
  /\ scan' = ScanAt("roots", Tail(scan.roots), <<>>)
  /\ UNCHANGED <<envVars, providerVars, markerVars, volumes, gamePathMap>>

\* return gamePathMap
ReturnStep ==
  /\ scan.pc = "roots"
  /\ scan.roots = <<>>
  /\ scan' = ScanAt("done", <<>>, <<>>)
  /\ UNCHANGED <<envVars, providerVars, markerVars, volumes, gamePathMap>>

InitInstalled ==
  /\ platform = "win32"
  /\ ctorRootOpens = TRUE
  /\ repo = <<>>
  /\ stateCache = "absent"
  /\ isXboxInstalled = Constructor(platform, ctorRootOpens, RegEnumKeys(repo))
  /\ mCache = NoPromise
  /\ nEnum = 0
  /\ lastCall = Call("new", NoArg, Resolved(0, <<>>), FALSE)
  /\ drive = [root |-> <<>>, file |-> NoFile]
  /\ markerPc = "idle"
  /\ markerRet = Null
  /\ volumes \in AllVolumes
  /\ scan = ScanAt("start", <<>>, <<>>)
  /\ gamePathMap = EmptyMap

NextInstalled ==
  \/ FindRootsStep
  \/ FindManifestsStep
  \/ ScanManifestStep
  \/ EndOfRootStep
  \/ ReturnStep

SpecInstalled == InitInstalled /\ [][NextInstalled]_vars

(***************************************************************************)
(* Properties of the discovery cache and the package enumerator (Spec).    *)
(***************************************************************************)
\* A step that is a call of the public method op (every call records itself
\* in lastCall; a call that changes nothing is no step).
CallOf(op) == lastCall'.op = op /\ vars' # vars

\* C1: on an installed provider an allGames() call that finds the cache set
\* returns that very promise and enumerates nothing; the first allGames() and
\* every reloadGames() issue exactly one enumeration, whose promise becomes
\* the cache; no call other than reloadGames() replaces a cache that is set.
C1_CachedUntilReload ==
  [][isXboxInstalled =>
       /\ (CallOf("allGames") /\ mCache # NoPromise) =>
            /\ lastCall'.ret = mCache
            /\ mCache' = mCache
            /\ nEnum' = nEnum
       /\ (CallOf("allGames") /\ mCache = NoPromise) =>
            /\ nEnum' = nEnum + 1
            /\ mCache' # NoPromise
            /\ mCache'.id = nEnum + 1
            /\ lastCall'.ret = mCache'
       /\ CallOf("reloadGames") =>
            /\ nEnum' = nEnum + 1
            /\ mCache' # NoPromise
            /\ mCache'.id = nEnum + 1
       /\ (~ CallOf("reloadGames") /\ mCache # NoPromise) => mCache' = mCache]_vars

\* An allGames() after a reload returned the promise of the second
\* enumeration, which holds entries.
C1_Witness ==
  /\ isXboxInstalled
  /\ lastCall.op = "allGames"
  /\ nEnum = 2
  /\ lastCall.ret = mCache
  /\ mCache.id = 2
  /\ mCache.state = "resolved"
  /\ Len(mCache.value) > 0

\* What the constructor determines, as the claim words it.
NotInstalledAtConstruction ==
  \/ platform # "win32"
  \/ ~ ctorRootOpens
  \/ ~ \E i \in 1..Len(repo) :
         StartsWith(ToLowerCase(Package(repo[i]).key), XBOXAPP_NAME)

\* C2: when the constructor determined that the store is not installed, then
\* whatever was called since: the flag is false, the cache is unset, no
\* enumeration was issued, allGames() resolved to the empty list and
\* isGameStoreInstalled() to false.
C2_UnavailableIsTerminal ==
  NotInstalledAtConstruction =>
    /\ ~ isXboxInstalled
    /\ mCache = NoPromise
    /\ nEnum = 0
    /\ lastCall.op = "allGames" => lastCall.ret = Resolved(0, <<>>)
    /\ lastCall.op = "isGameStoreInstalled" => lastCall.flag = FALSE
    /\ lastCall.op \in {"findByAppId", "findByName"} =>
         lastCall.ret.state = "rejected" /\ lastCall.ret.err.type = "GameEntryNotFound"

\* allGames() was called on a Windows system whose repository opened and
\* holds packages, but not the Xbox app.
C2_Witness ==
  /\ platform = "win32"
  /\ ctorRootOpens
  /\ Len(repo) = MaxKeys
  /\ ~ isXboxInstalled
  /\ lastCall.op = "allGames"

\* C3 (as claimed): on an installed provider the promise returned by
\* allGames() is always resolved.
C3_AllGamesNeverFails ==
  (isXboxInstalled /\ lastCall.op = "allGames") => lastCall.ret.state = "resolved"

\* The packages the filter of the enumeration keeps, by the claim's words:
\* the lower-case key starts with no ignore-list string.
IgnoredBySpec(key) ==
  \E lower \in {ToLowerCase(key)} :
    \E i \in 1..Len(IGNORABLE) : StartsWith(lower, IGNORABLE[i])

Candidates == SelectSeq(RegEnumKeys(repo), LAMBDA p : ~ IgnoredBySpec(p.key))

\* The entries of those of the candidates cands whose DisplayName and
\* PackageRootFolder reads both succeed, in enumeration order.
UsableEntries(cands) ==
  LET usable == SelectSeq(cands,
                          LAMBDA p : p.displayName.def /\ p.packageRootFolder.def)
  IN  [i \in 1..Len(usable) |-> MapKey(usable[i], StateCache(stateCache)).entry]

\* C4 (as claimed): an enumeration whose repository root opened resolves,
\* with the entries of all the candidates whose reads succeed; a failing
\* read after the DisplayName fetch drops that candidate only.
C4_FailedReadDropsCandidateOnly ==
  (mCache # NoPromise /\ mCache.err # OpenError) =>
    mCache = Resolved(mCache.id, UsableEntries(Candidates))

\* C5: a candidate whose DisplayName cannot be fetched yields no entry and
\* never fails the enumeration: a resolved enumeration holds exactly the
\* entries of the candidates whose reads succeed, in enumeration order, and
\* an enumeration is rejected only when the root did not open or a
\* candidate that has a DisplayName lacks its PackageRootFolder.
C5_MissingNameDropsCandidate ==
  mCache # NoPromise =>
    \E cands \in {Candidates} :
      /\ mCache.state = "resolved" => mCache.value = UsableEntries(cands)
      /\ mCache.state = "rejected" =>
           \/ mCache.err = OpenError
           \/ \E i \in 1..Len(cands) :
                cands[i].displayName.def /\ ~ cands[i].packageRootFolder.def

\* A resolved enumeration of a repository that holds a candidate without
\* DisplayName between two usable ones.
C5_Witness ==
  /\ mCache.state = "resolved"
  /\ Len(mCache.value) = 2
  /\ mCache.value[1] # mCache.value[2]
  /\ \E cands \in {Candidates} :
       /\ Len(cands) = 3
       /\ ~ cands[2].displayName.def
       /\ mCache.value[1].appid = AppId(cands[1].key)
       /\ mCache.value[2].appid = AppId(cands[3].key)

\* C6 (as claimed): every entry of a list resolved by allGames() has a
\* non-empty appid and a defined gamePath.
C6_EntriesHaveIdentityAndPath ==
  (lastCall.op = "allGames" /\ lastCall.ret.state = "resolved") =>
    \A i \in 1..Len(lastCall.ret.value) :
      /\ lastCall.ret.value[i].appid # <<>>
      /\ lastCall.ret.value[i].gamePath.def

\* C7: a list resolved by allGames() holds no entry made from a key whose
\* lower-case form starts with an ignore-list string, and no more entries
\* than there are other keys.
C7_IgnoredKeysNeverEmitted ==
  (lastCall.op = "allGames" /\ lastCall.ret.state = "resolved") =>
    /\ Len(lastCall.ret.value) <= Len(Candidates)
    /\ \A k \in 1..Len(repo) :
         \E key \in {Package(repo[k]).key} :
           IgnoredBySpec(key) =>
             \A i \in 1..Len(lastCall.ret.value) :
               \/ lastCall.ret.value[i].appid # AppId(key)
               \/ lastCall.ret.value[i].publisherId # PublisherId(key)

\* allGames() resolved with entries on a registry that holds the keys
\* Microsoft.XboxApp_... and microsoft.xbox_1.0.0.0_x64_8wekyb3d8bbwe.
C7_Witness ==
  /\ lastCall.op = "allGames"
  /\ lastCall.ret.state = "resolved"
  /\ Len(lastCall.ret.value) > 0
  /\ \E k \in 1..Len(repo) : Package(repo[k]).key = KeyXbox
  /\ \E k \in 1..Len(repo) : Package(repo[k]).key = KeyXboxApp

\* C10: after a successful enumeration findByAppId resolves with the first
\* entry, in enumeration order, whose appid is the requested id or one of
\* the requested ids, and rejects with GameEntryNotFound naming the id(s)
\* and the store 'xbox' exactly when no entry matches.
C10_FindByAppIdFirstMatch ==
  (lastCall.op = "findByAppId" /\ mCache.state = "resolved") =>
    LET ids == lastCall.arg.ids
        hits == {i \in 1..Len(mCache.value) :
                   \E k \in 1..Len(ids) : ids[k] = mCache.value[i].appid}
    IN  IF hits = {}
          THEN /\ lastCall.ret.state = "rejected"
               /\ lastCall.ret.err.type = "GameEntryNotFound"
               /\ lastCall.ret.err.what = Join(ids, JoinSep)
               /\ lastCall.ret.err.store = "xbox"
          ELSE /\ lastCall.ret.state = "resolved"
               /\ \E i \in hits :
                    /\ \A j \in hits : i <= j
                    /\ lastCall.ret.value = <<mCache.value[i]>>

\* findByAppId("Foo") resolved with the first of two different entries whose
\* appid is "Foo".
C10_Witness ==
  /\ lastCall.op = "findByAppId"
  /\ lastCall.arg = [isArray |-> FALSE, ids |-> <<StrFoo>>]
  /\ lastCall.ret.state = "resolved"
  /\ Len(mCache.value) = 2
  /\ mCache.value[1].appid = StrFoo
  /\ mCache.value[2].appid = StrFoo
  /\ mCache.value[1] # mCache.value[2]
  /\ lastCall.ret.value = <<mCache.value[1]>>

\* C16: the promise of a failed enumeration is cached like any other.  While
\* mCache is a rejected promise, every call but reloadGames() leaves it and
\* the count of enumerations alone; allGames() returns that promise, and
\* findByAppId() and findByName() are rejected with its error.  An
\* enumeration started by allGames() is stored whether or not it succeeded.
\* reloadGames() resolves; on an installed provider it stores the promise
\* of a new enumeration, even a rejected one.
C16_FailedPromiseIsCached ==
  [][/\ (mCache.state = "rejected" /\ ~ CallOf("reloadGames")) =>
          /\ mCache' = mCache
          /\ nEnum' = nEnum
          /\ CallOf("allGames") => lastCall'.ret = mCache
          /\ (CallOf("findByAppId") \/ CallOf("findByName")) =>
               /\ lastCall'.ret.state = "rejected"
               /\ lastCall'.ret.err = mCache.err
     /\ (CallOf("allGames") /\ isXboxInstalled /\ mCache = NoPromise) =>
          /\ mCache' = lastCall'.ret
          /\ mCache'.state \in {"resolved", "rejected"}
     /\ CallOf("reloadGames") =>
          /\ lastCall'.ret.state = "resolved"
          /\ isXboxInstalled =>
               /\ mCache'.state \in {"resolved", "rejected"}
               /\ mCache'.id = nEnum + 1
               /\ nEnum' = nEnum + 1]_vars

\* reloadGames() started the second enumeration, which failed, and a later
\* findByName() was rejected with the error of that enumeration.
C16_Witness ==
  /\ mCache.state = "rejected"
  /\ mCache.id = 2
  /\ nEnum = 2
  /\ lastCall.op = "findByName"
  /\ lastCall.ret.state = "rejected"
  /\ lastCall.ret.err = mCache.err

(***************************************************************************)
(* Properties of the registry indirection resolver (Spec).                 *)
(***************************************************************************)
\* The candidates whose DisplayName and PackageRootFolder reads succeed: a
\* resolved enumeration holds one entry for each, in this order.
UsablePackages(cands) ==
  SelectSeq(cands, LAMBDA p : p.displayName.def /\ p.packageRootFolder.def)

\* The install path by the claim's words: the MutableLocation of the first
\* child key of the state cache that has both string values and whose
\* MutableLink is packagePath, else packagePath itself.
InstallPathBySpec(cache, packagePath) ==
  LET str(k, n) == {i \in 1..Len(k.values) :
                      k.values[i].key = n /\ k.values[i].type = "REG_SZ"}
      qualifies(k) ==
        /\ str(k, StrMutableLink) # {}
        /\ str(k, StrMutableLocation) # {}
        /\ \E i \in str(k, StrMutableLink) : k.values[i].value = packagePath
      hits == {j \in 1..Len(cache.keys) : qualifies(cache.keys[j])}
  IN  IF hits = {} THEN packagePath
      ELSE LET first == cache.keys[CHOOSE j \in hits : \A h \in hits : j <= h]
           IN  first.values[CHOOSE i \in str(first, StrMutableLocation) : TRUE].value

\* C11 (as claimed): the gamePath of every entry of a resolved enumeration
\* is the MutableLocation of the first qualifying child key of the state
\* cache, and the PackageRootFolder when no child key qualifies.
C11_InstallPathIsFirstMutableLocation ==
  mCache.state = "resolved" =>
    \E usable \in {UsablePackages(Candidates)} :
      /\ Len(mCache.value) = Len(usable)
      /\ \A i \in 1..Len(usable) :
           mCache.value[i].gamePath =
             Def(InstallPathBySpec(StateCache(stateCache),
                                   usable[i].packageRootFolder.val))

\* C12: in a resolved enumeration the entry of every package whose
\* DisplayName does not start with '@' carries that DisplayName as its name,
\* and is the entry the package gives without any resource cache.
C12_DirectNameUnchanged ==
  mCache.state = "resolved" =>
    \E usable \in {UsablePackages(Candidates)} :
      /\ Len(mCache.value) = Len(usable)
      /\ \A i \in 1..Len(usable) :
           Head(usable[i].displayName.val) # "@" =>
             /\ mCache.value[i].name = usable[i].displayName
             /\ mCache.value[i] =
                  MapKey([usable[i] EXCEPT !.resources = NoKeys],
                         StateCache(stateCache)).entry

\* A resolved enumeration holds the entry of Foo_1_x64_Bar, whose resource
\* cache has a value named by its DisplayName with other data; the entry is
\* named by the DisplayName.
C12_Witness ==
  /\ mCache.state = "resolved"
  /\ \E i \in 1..Len(mCache.value) :
       /\ mCache.value[i].appid = StrFoo
       /\ mCache.value[i].name = Def(NameFoo)
  /\ \E k \in 1..Len(repo) : repo[k] = "Foo1"
  /\ ResolveRef(PkgFoo1, NameFoo) = Def(NameFoo2Alt)

\* The hives under the first child key of a package's resource cache that
\* can be opened and hold a value named ref, by position.
MatchingHives(pkg, ref) ==
  IF Len(pkg.resources.keys) = 0 THEN {}
  ELSE LET hives == pkg.resources.keys[1].hives
       IN  {h \in 1..Len(hives) :
              /\ hives[h].opens
              /\ \E v \in 1..Len(hives[h].values) : hives[h].values[v].key = ref}

\* C13 (as claimed): in a resolved enumeration the name of a package whose
\* DisplayName starts with '@' is the data of the value named by the
\* DisplayName in the first hive, in enumeration order, that opens and holds
\* such a value.
C13_FirstMatchingHiveWins ==
  mCache.state = "resolved" =>
    \E usable \in {UsablePackages(Candidates)} :
      /\ Len(mCache.value) = Len(usable)
      /\ \A i \in 1..Len(usable) :
           \E ref \in {usable[i].displayName.val} :
             \E hits \in {MatchingHives(usable[i], ref)} :
               (Head(ref) = "@" /\ hits # {}) =>
                 \E h \in hits :
                   /\ \A g \in hits : h <= g
                   /\ \E hive \in {usable[i].resources.keys[1].hives[h]} :
                        \E v \in 1..Len(hive.values) :
                          /\ hive.values[v].key = ref
                          /\ mCache.value[i].name = Def(hive.values[v].value)

\* The first child key name under REPOSITORY_PATH2 for a package, if any.
FirstExecKey(pkg) ==
  IF pkg.exec.opens /\ Len(pkg.exec.keys) > 0 THEN Def(pkg.exec.keys[1]) ELSE Undefined

\* The part of a string after its last '!' (the whole string when it holds
\* no '!').
AfterLastBang(str) ==
  LET bangs == {i \in 1..Len(str) : str[i] = "!"}
  IN  IF bangs = {} THEN str
      ELSE SubSeq(str, (CHOOSE i \in bangs : \A j \in bangs : j <= i) + 1, Len(str))

\* C14 (as claimed): the executionName of every entry of a resolved
\* enumeration is the last '!'-segment of the first child key name (the
\* whole name when it holds no '!'), and "App" only when there is no child
\* key.
C14_ExecutionNameAsClaimed ==
  mCache.state = "resolved" =>
    \E usable \in {UsablePackages(Candidates)} :
      /\ Len(mCache.value) = Len(usable)
      /\ \A i \in 1..Len(usable) :
           \E first \in {FirstExecKey(usable[i])} :
             mCache.value[i].executionName =
               IF first.def THEN AfterLastBang(first.val) ELSE StrApp

\* C14 (amended): the executionName is the part after the last '!' of the
\* first child key name when that name holds a '!', and "App" when there is
\* no child key or the name holds no '!'.
C14_ExecutionName ==
  mCache.state = "resolved" =>
    \E usable \in {UsablePackages(Candidates)} :
      /\ Len(mCache.value) = Len(usable)
      /\ \A i \in 1..Len(usable) :
           \E first \in {FirstExecKey(usable[i])} :
             mCache.value[i].executionName =
               IF first.def /\ \E c \in 1..Len(first.val) : first.val[c] = "!"
                 THEN AfterLastBang(first.val) ELSE StrApp

\* A resolved enumeration holds an entry named after "Foo_1_x64_Bar!Game",
\* one of a package whose first child key "FlatApp" holds no '!', and one of
\* a package without child key.
C14_Witness ==
  /\ mCache.state = "resolved"
  /\ \E usable \in {UsablePackages(Candidates)} :
       /\ Len(mCache.value) = Len(usable)
       /\ \E i, j, k \in 1..Len(usable) :
            /\ FirstExecKey(usable[i]) = Def(ExecFoo1)
            /\ mCache.value[i].executionName = <<"G","a","m","e">>
            /\ FirstExecKey(usable[j]) = Def(ExecFlat)
            /\ mCache.value[j].executionName = StrApp
            /\ FirstExecKey(usable[k]) = Undefined
            /\ mCache.value[k].executionName = StrApp

(***************************************************************************)
(* Properties of the manifest scan (SpecInstalled).                        *)
(***************************************************************************)
\* The manifests in the order the scan visits them: volume by volume, and
\* in walk order within a volume.
VisitOrder ==
  LET all == [i \in 1..Len(volumes.manifests) |-> i]
      on(d) == SelectSeq(all, LAMBDA i : volumes.manifests[i].drive = d)
  IN  on(1) \o on(2)

\* The identity name a manifest carries, if it loads and has a non-empty one.
TitleOf(i) ==
  LET kind == volumes.manifests[i].kind
  IN  IF kind \in {"A", "B"} THEN Def(<<kind>>) ELSE Undefined

\* The positions in VisitOrder of the manifests that carry the identity n.
VisitsOf(order, n) == {k \in 1..Len(order) : TitleOf(order[k]) = Def(n)}

\* The map holds exactly the identities of the manifests that load and
\* have a name: the others contribute nothing and do not stop the scan.
OnlyLoadedTitles(order) ==
  DOMAIN gamePathMap = {TitleOf(order[k]).val : k \in {j \in 1..Len(order) : TitleOf(order[j]).def}}

\* C15 (as claimed): when findInstalledGames returns, the map holds for
\* every identity the directory of the first manifest, in visiting order,
\* that carries it.
C15_FirstManifestKept ==
  scan.pc = "done" =>
    \E order \in {VisitOrder} :
      /\ OnlyLoadedTitles(order)
      /\ \A n \in DOMAIN gamePathMap :
           \E k \in VisitsOf(order, n) :
             /\ \A j \in VisitsOf(order, n) : k <= j
             /\ gamePathMap[n] = ManifestDir(volumes, order[k])

\* C15 (amended): when findInstalledGames returns, the map holds for every
\* identity the directory of the last manifest, in visiting order, that
\* carries it; manifests that fail to load or have no name contribute no
\* entry and do not stop the scan.
C15_LastManifestWins ==
  scan.pc = "done" =>
    \E order \in {VisitOrder} :
      /\ OnlyLoadedTitles(order)
      /\ \A n \in DOMAIN gamePathMap :
           \E k \in VisitsOf(order, n) :
             /\ \A j \in VisitsOf(order, n) : j <= k
             /\ gamePathMap[n] = ManifestDir(volumes, order[k])

\* The scan returned after visiting a manifest of "A" on E:, reported
\* first by the walk but visited last, an unreadable manifest and a
\* manifest of "A" on D:; the map holds the directory on E:.
C15_Witness ==
  /\ scan.pc = "done"
  /\ Len(volumes.manifests) = 3
  /\ volumes.manifests[1] = [drive |-> 2, kind |-> "A"]
  /\ volumes.manifests[2] = [drive |-> 1, kind |-> "unreadable"]
  /\ volumes.manifests[3] = [drive |-> 1, kind |-> "A"]
  /\ DOMAIN gamePathMap = {<<"A">>}
  /\ gamePathMap[<<"A">>] = <<69, 58, 92, 65, 92, 49>>

(***************************************************************************)
(* Properties of the marker decoder (SpecMarker).                          *)
(***************************************************************************)
\* The marker is a readable regular file.
MarkerRead == drive.file.stat = "file" /\ drive.file.readable

\* C8 (as claimed): for a readable regular marker file of odd length or of
\* fewer than 5 units, the caller receives something other than the
\* "no marker" outcome.
C8_CorruptMarkerReported ==
  (/\ markerPc = "done"
   /\ MarkerRead
   /\ \/ Len(drive.file.content) % 2 # 0
      \/ Len(drive.file.content) \div 2 < 5) => markerRet # Null

\* The bytes of a sequence of 16-bit units, low byte first.
RECURSIVE EncodeUnits(_)
EncodeUnits(units) ==
  IF Len(units) = 0 THEN <<>>
  ELSE <<Head(units) % 256, Head(units) \div 256>> \o EncodeUnits(Tail(units))

\* The 12-byte marker 'RGBX' 01 00 00 00 41 00 00 00.
ExampleMarker == <<82, 71, 66, 88, 1, 0, 0, 0, 65, 0, 0, 0>>

\* C9: for a marker of even length with at least 5 units the result is the
\* root followed by the units 4 .. end-1 (unit i = byte[2i] | byte[2i+1] << 8),
\* whatever the header and the last unit are; its payload encodes back to
\* the bytes 8 .. N-2; the example marker under "D:\" gives "D:\A".
C9_DecodesPayload ==
  (/\ markerPc = "done"
   /\ MarkerRead
   /\ Len(drive.file.content) % 2 = 0
   /\ Len(drive.file.content) \div 2 >= 5) =>
    LET bytes == drive.file.content
        n == Len(bytes) \div 2
        unit(i) == bytes[2 * i + 1] + 256 * bytes[2 * i + 2]
        payload == [i \in 1..(n - 5) |-> unit(i + 3)]
    IN  /\ markerRet.kind = "path"
        /\ markerRet.path = drive.root \o payload
        /\ EncodeUnits(SubSeq(markerRet.path, Len(drive.root) + 1, Len(markerRet.path)))
             = SubSeq(bytes, 9, Len(bytes) - 2)
        /\ (bytes = ExampleMarker /\ drive.root = <<68, 58, 92>>) =>
             markerRet.path = <<68, 58, 92, 65>>

\* The example marker was decoded under "D:\".
C9_Witness ==
  /\ markerPc = "done"
  /\ MarkerRead
  /\ drive.file.content = ExampleMarker
  /\ drive.root = <<68, 58, 92>>
  /\ markerRet = [kind |-> "path", path |-> <<68, 58, 92, 65>>]

====
